---- MODULE Spec2Model ----
(***************************************************************************)
(* Model of the enclosure detection engine of ring-of-cinders              *)
(* (src/systems/EnclosureDetector.ts).  A detector is constructed over a   *)
(* play field; its caller invokes detectEnclosures with lists of brick     *)
(* positions.  World positions and grid cells are records [x, y] of        *)
(* integers, as the source's GridPosition.                                 *)
(***************************************************************************)
EXTENDS Integers, Sequences, FiniteSets, TLC

VARIABLES
  gameWidth,              \* constructor argument gameWidth
  gameHeight,             \* constructor argument gameHeight
  cellSize,               \* EnclosureDetector.cellSize
  gridWidth,              \* EnclosureDetector.gridWidth
  gridHeight,             \* EnclosureDetector.gridHeight
  brickPositions,         \* argument of the latest (or the coming first) call
  occupiedCells,          \* local occupiedCells of the latest call, at its return
  reachableFromBoundary,  \* local reachableFromBoundary of the latest call, at its return
  result,                 \* value returned by the latest call
  prevPositions,          \* argument of the call before the latest one
  prevOccupied,           \* occupiedCells of the call before the latest one
  prevResult,             \* value returned by the call before the latest one
  calls,                  \* number of detectEnclosures calls made so far
  pc,                     \* "idle": no call is running; "flood": a call is at its while loop
  queue,                  \* local queue of the running call
  visited,                \* local visited of the running call
  bricks,                 \* GameScene.bricks: records [x, y, isGlowing] (Brick sprite position, Brick.isGlowing)
  brickCooldown,          \* GameScene.brickCooldown, in milliseconds
  activeEnclosures,       \* GameScene.activeEnclosures; NoResult stands for null
  furnaceDamageTimer,     \* GameScene.furnaceDamageTimer, in milliseconds
  furnaceOverlay,         \* GameScene.furnaceOverlay is not null
  gameState,              \* GameScene.gameState
  isPaused,               \* GameScene.isPaused
  damageApplied,          \* the latest update() call ran processFurnaceDamage past its guard
  sincePlacement,         \* frame time counted down from brickCooldown since the latest placeBrick, capped
  placementGap,           \* sincePlacement at the moment of the latest placeBrick
  hp,                     \* hp of an Ant, an AntHill and a Player
  isDead,                 \* isDead of the three
  invulnerableTimer,      \* Player.invulnerableTimer, in milliseconds
  lastReturn,             \* the entity of the latest takeDamage call and the value it returned
  trueReturns             \* per entity, the number of takeDamage calls that returned true

vars == <<gameWidth, gameHeight, cellSize, gridWidth, gridHeight, brickPositions,
          occupiedCells, reachableFromBoundary, result,
          prevPositions, prevOccupied, prevResult, calls, pc, queue, visited,
          bricks, brickCooldown, activeEnclosures, furnaceDamageTimer, furnaceOverlay,
          gameState, isPaused, damageApplied, sincePlacement, placementGap,
          hp, isDead, invulnerableTimer, lastReturn, trueReturns>>

\* the fields of the entities and what is recorded about their takeDamage calls
entityVars == <<hp, isDead, invulnerableTimer, lastReturn, trueReturns>>

\* the fields of the GameScene and what is recorded about its handlers
sceneVars == <<bricks, brickCooldown, activeEnclosures, furnaceDamageTimer, furnaceOverlay,
               gameState, isPaused, damageApplied, sincePlacement, placementGap>>

\* what a call of detectEnclosures and its caller's bookkeeping write
callVars == <<brickPositions, occupiedCells, reachableFromBoundary, result,
              prevPositions, prevOccupied, prevResult, calls>>

\* the locals of a call that is followed statement by statement
stepVars == <<pc, queue, visited>>

detectorVars == <<gameWidth, gameHeight, cellSize, gridWidth, gridHeight>>

(***************************************************************************)
(* Bounds of the model and constants of the program.                       *)
(***************************************************************************)
\* longest brick list handed to the first call
MaxBricks == 4
\* default cell edge length of the constructor, also passed by GameScene
DefaultCellSize == 32
\* the play field of the game (main.ts) and of the concrete ring scenario
RingFieldWidth == 800
RingFieldHeight == 600
\* the ring scenario: perimeter of the rectangle (RingLo,RingLo)..(RingHi,RingHi)
RingLo == 5
RingHi == 10

\* the ringed-grid scenario: grids of 1..MaxRimGrid cells per edge
MaxRimGrid == 5

\* GameScene.MAX_BRICKS
MaxBricksInScene == 8
\* GameScene.BRICK_COOLDOWN_TIME (0.8 seconds), in milliseconds
BrickCooldownTime == 800
\* GameScene.BRICK_PLACEMENT_DISTANCE, in pixels
BrickPlacementDistance == 50
\* GameScene.FURNACE_DAMAGE_INTERVAL (1.0 seconds), in milliseconds
FurnaceDamageInterval == 1000
\* half the edge of a brick: the margin of placeBrick's clamp and the distance
\* below which activateFurnaceMode takes a brick for a boundary position
BrickHalfSize == 16
\* Ant.hp, AntHill.hp and Player.hp at construction
AntHp == 2
AntHillHp == 10
PlayerHp == 3
\* Player.INVULNERABLE_DURATION (1.0 seconds), in milliseconds
InvulnerableDuration == 1000
\* the amount checkAntPlayerCollision passes to kill the ant that hit the player
LethalAmount == 999
\* the time between two frames, in milliseconds
FrameDelta == 400
\* the distance between two bricks of the row the player lays, in pixels
LineStep == 40
\* the player makes at most this many placements in a game
MaxGameCalls == 6

NoResult == [hasEnclosure |-> FALSE, enclosedCells |-> <<>>, enclosureBoundary |-> <<>>,
             returned |-> FALSE]

(***************************************************************************)
(* Arithmetic helpers of the JavaScript runtime.                           *)
(***************************************************************************)
\* Math.ceil(a / b) for a >= 0, b > 0
CeilDiv(a, b) == (a + b - 1) \div b

\* Math.floor(a / b) for b > 0 (\div rounds towards minus infinity)
FloorDiv(a, b) == a \div b

(***************************************************************************)
(* EnclosureDetector: coordinate mapping and validity.                     *)
(***************************************************************************)
WorldToGrid(worldX, worldY) ==
  [x |-> FloorDiv(worldX, cellSize), y |-> FloorDiv(worldY, cellSize)]

\* as GridToWorld, but the corner of the cell instead of its centre
GridToWorldCorner(gridX, gridY) ==
  [x |-> gridX * cellSize, y |-> gridY * cellSize]

\* cellSize / 2 is exact for the even cell sizes the model uses
GridToWorld(gridX, gridY) ==
  [x |-> gridX * cellSize + cellSize \div 2, y |-> gridY * cellSize + cellSize \div 2]

\* as IsValidGridPosition, but with <= for < on the upper ends
IsValidGridPositionInclusive(x, y) ==
  x >= 0 /\ x <= gridWidth /\ y >= 0 /\ y <= gridHeight

IsValidGridPosition(x, y) ==
  x >= 0 /\ x < gridWidth /\ y >= 0 /\ y < gridHeight

\* the string key `${x},${y}` is injective on integer pairs; the pair stands for it
GetPositionKey(x, y) == <<x, y>>

\* as directions, but the step to the right is a second step to the left
directionsWithoutRight ==
  << [x |-> 0, y |-> -1], [x |-> 0, y |-> 1], [x |-> -1, y |-> 0], [x |-> -1, y |-> 0] >>

\* as directions, but the step up is a second step down
directionsWithoutUp ==
  << [x |-> 0, y |-> 1], [x |-> 0, y |-> 1], [x |-> -1, y |-> 0], [x |-> 1, y |-> 0] >>

\* up, down, left, right
directions == << [x |-> 0, y |-> -1], [x |-> 0, y |-> 1],
                 [x |-> -1, y |-> 0], [x |-> 1, y |-> 0] >>

(***************************************************************************)
(* detectEnclosures, pass by pass.  A for loop over a known range is        *)
(* written as the sequence it walks through; the while loop of the flood    *)
(* fill is iterated step by step until its queue is empty.                  *)
(***************************************************************************)
\* lines 67-70: the cells one brick adds to occupiedCells
OccupiedBy(brick) ==
  LET gridPos == WorldToGrid(brick.x, brick.y)
  IN  IF IsValidGridPosition(gridPos.x, gridPos.y)
        THEN {GetPositionKey(gridPos.x, gridPos.y)}
        ELSE {}

\* as BuildOccupied, but a brick landing on an occupied cell clears the cell
BuildOccupiedToggling(positions) ==
  {key \in UNION {OccupiedBy(positions[i]) : i \in 1..Len(positions)} :
     Cardinality({i \in 1..Len(positions) : key \in OccupiedBy(positions[i])}) % 2 = 1}

\* as BuildOccupied, but a brick with the x of the brick before it is dropped
BuildOccupiedDroppingRepeatedX(positions) ==
  UNION {OccupiedBy(positions[i]) :
           i \in {j \in 1..Len(positions) : j = 1 \/ positions[j].x # positions[j - 1].x}}

\* lines 63-71: occupiedCells after the loop over the bricks
BuildOccupied(positions) == UNION {OccupiedBy(positions[i]) : i \in 1..Len(positions)}

\* lines 82-91: the cells the first loop looks at, in its order: for every
\* column x the top cell (x, 0), then the bottom cell (x, gridHeight - 1)
TopBottomCells ==
  [k \in 1..(2 * gridWidth) |->
     [x |-> (k - 1) \div 2, y |-> IF k % 2 = 1 THEN 0 ELSE gridHeight - 1]]

\* as LeftRightCells, but the second seeding loop is left out
NoLeftRightCells == <<>>

\* lines 94-103: the cells the second loop looks at, in its order: for every
\* row y of 1..gridHeight-2 the left cell (0, y), then the right cell (gridWidth - 1, y);
\* no row at all when gridHeight < 3
LeftRightCells ==
  [k \in 1..(IF gridHeight > 2 THEN 2 * (gridHeight - 2) ELSE 0) |->
     [x |-> IF k % 2 = 1 THEN 0 ELSE gridWidth - 1, y |-> 1 + (k - 1) \div 2]]

\* as IsSeeded, but without the test on occupiedCells
IsSeededAlways(cell, occ) == TRUE

\* lines 83, 87, 95, 99: the rim cell is pushed
IsSeeded(cell, occ) == GetPositionKey(cell.x, cell.y) \notin occ

\* lines 78-103: the work queue after both seeding loops; every push comes
\* with visited.add of the same cell
SeedQueue(occ) ==
  SelectSeq(TopBottomCells \o LeftRightCells, LAMBDA cell : IsSeeded(cell, occ))

SeedVisited(occ) ==
  LET seeds == SeedQueue(occ)
  IN  {GetPositionKey(seeds[i].x, seeds[i].y) : i \in 1..Len(seeds)}

\* as SkipNeighbour, but a neighbour holding a brick is not skipped
SkipNeighbourIgnoringBricks(newX, newY, seen, occ) ==
  \/ ~IsValidGridPosition(newX, newY)
  \/ GetPositionKey(newX, newY) \in seen

\* lines 124-128: the neighbour is skipped
SkipNeighbour(newX, newY, seen, occ) ==
  \/ ~IsValidGridPosition(newX, newY)
  \/ GetPositionKey(newX, newY) \in seen
  \/ GetPositionKey(newX, newY) \in occ

\* lines 118-132: the loop over the directions d.. for one dequeued cell
RECURSIVE VisitNeighbours(_, _, _, _)
VisitNeighbours(st, occ, current, d) ==
  IF d > Len(directions) THEN st
  ELSE LET newX == current.x + directions[d].x
           newY == current.y + directions[d].y
       IN  IF SkipNeighbour(newX, newY, st.visited, occ)
             THEN VisitNeighbours(st, occ, current, d + 1)
             ELSE VisitNeighbours(
                    [st EXCEPT !.visited = @ \cup {GetPositionKey(newX, newY)},
                               !.queue = Append(@, [x |-> newX, y |-> newY])],
                    occ, current, d + 1)

\* as BfsStep, but current is read as queue[0] and left on the queue
BfsStepWithoutShift(st, occ) ==
  LET current == Head(st.queue)
      marked == [st EXCEPT !.reachable = @ \cup {GetPositionKey(current.x, current.y)}]
  IN  VisitNeighbours(marked, occ, current, 1)

\* lines 114-132: one iteration of the while loop
BfsStep(st, occ) ==
  LET current == Head(st.queue)
      shifted == [st EXCEPT !.queue = Tail(@),
                            !.reachable = @ \cup {GetPositionKey(current.x, current.y)}]
  IN  VisitNeighbours(shifted, occ, current, 1)

\* lines 113-133: at most n >= 1 iterations of the while loop, as two halves
RECURSIVE FloodSteps(_, _, _)
FloodSteps(st, occ, n) ==
  IF Len(st.queue) = 0 THEN st
  ELSE IF n = 1 THEN BfsStep(st, occ)
  ELSE FloodSteps(FloodSteps(st, occ, n \div 2), occ, n - n \div 2)

\* as FloodFill, but with an `if` in place of the `while`: one iteration at most
FloodFillOnce(st, occ) ==
  IF Len(st.queue) = 0 THEN st ELSE BfsStep(st, occ)

\* lines 113-133: the while loop, run until the queue is empty
RECURSIVE FloodFill(_, _)
FloodFill(st, occ) ==
  IF Len(st.queue) = 0 THEN st
  ELSE FloodFill(FloodSteps(st, occ, gridWidth * gridHeight), occ)

\* lines 74-133: reachableFromBoundary when the while loop has ended
ReachableFromBoundary(occ) ==
  FloodFill([queue |-> SeedQueue(occ), visited |-> SeedVisited(occ), reachable |-> {}],
            occ).reachable

\* as IsEnclosedKey, but without the test on occupiedCells
IsEnclosedKeyIgnoringBricks(posKey, occ, reach) == posKey \notin reach

\* line 142: the cell is enclosed
IsEnclosedKey(posKey, occ, reach) == posKey \notin occ /\ posKey \notin reach

\* as RowMajorCells, but with the loop over x outside the loop over y
ColumnMajorCells ==
  [k \in 1..(gridWidth * gridHeight) |->
     [x |-> (k - 1) \div gridHeight, y |-> (k - 1) % gridHeight]]

\* lines 138-139: the cells of the grid in the order of the nested loops
RowMajorCells ==
  [k \in 1..(gridWidth * gridHeight) |->
     [x |-> (k - 1) % gridWidth, y |-> (k - 1) \div gridWidth]]

\* lines 136-148: enclosedCells after the scan
ScanEnclosed(occ, reach) ==
  LET found == SelectSeq(RowMajorCells,
                         LAMBDA cell : IsEnclosedKey(GetPositionKey(cell.x, cell.y), occ, reach))
  IN  [i \in 1..Len(found) |-> GridToWorld(found[i].x, found[i].y)]

\* as IsEnclosedNeighbour, but without the test of line 166
IsUnoccupiedNeighbour(checkX, checkY, occ, reach) ==
  /\ IsValidGridPosition(checkX, checkY)
  /\ GetPositionKey(checkX, checkY) \notin occ

\* lines 164-166: the neighbour (checkX, checkY) of a brick is an enclosed cell
IsEnclosedNeighbour(checkX, checkY, occ, reach) ==
  /\ IsValidGridPosition(checkX, checkY)
  /\ GetPositionKey(checkX, checkY) \notin occ
  /\ GetPositionKey(checkX, checkY) \notin reach

\* lines 159-170: index of the first direction from d on whose neighbour of
\* gridPos is enclosed, 0 if there is none
RECURSIVE FirstEnclosedDirection(_, _, _, _)
FirstEnclosedDirection(gridPos, d, occ, reach) ==
  IF d > Len(directions) THEN 0
  ELSE IF IsEnclosedNeighbour(gridPos.x + directions[d].x, gridPos.y + directions[d].y,
                              occ, reach)
         THEN d
         ELSE FirstEnclosedDirection(gridPos, d + 1, occ, reach)

\* as IsBoundaryBrick, but the loop over the directions starts at the second one
IsBoundaryBrickFromSecondDirection(brick, occ, reach) ==
  FirstEnclosedDirection(WorldToGrid(brick.x, brick.y), 2, occ, reach) # 0

\* lines 156-170: the brick is pushed onto enclosureBoundary (once: the break)
IsBoundaryBrick(brick, occ, reach) ==
  FirstEnclosedDirection(WorldToGrid(brick.x, brick.y), 1, occ, reach) # 0

\* the number of directions from d on whose neighbour of gridPos is enclosed
RECURSIVE EnclosedDirections(_, _, _, _)
EnclosedDirections(gridPos, d, occ, reach) ==
  IF d > Len(directions) THEN 0
  ELSE (IF IsEnclosedNeighbour(gridPos.x + directions[d].x, gridPos.y + directions[d].y,
                               occ, reach) THEN 1 ELSE 0)
       + EnclosedDirections(gridPos, d + 1, occ, reach)

\* as BoundaryLoop, but without the break of line 168: a brick is pushed once
\* for every direction whose neighbour is enclosed
RECURSIVE BoundaryLoopWithoutBreak(_, _, _)
BoundaryLoopWithoutBreak(positions, occ, reach) ==
  IF Len(positions) = 0 THEN <<>>
  ELSE [k \in 1..EnclosedDirections(WorldToGrid(Head(positions).x, Head(positions).y), 1, occ, reach)
          |-> Head(positions)]
       \o BoundaryLoopWithoutBreak(Tail(positions), occ, reach)

\* lines 155-171: enclosureBoundary after the loop over the bricks
BoundaryLoop(positions, occ, reach) ==
  SelectSeq(positions, LAMBDA brick : IsBoundaryBrick(brick, occ, reach))

\* as HasEnclosure, but a single enclosed cell does not count
HasEnclosureBeyondOne(enclosedCells) == Len(enclosedCells) > 1

\* line 175: hasEnclosure of the returned value
HasEnclosure(enclosedCells) == Len(enclosedCells) > 0

\* lines 135-178: the value returned once the while loop has ended
ResultAfterFlood(positions, occ, reach) ==
  LET enclosedCells == ScanEnclosed(occ, reach)
      enclosureBoundary ==
        IF Len(enclosedCells) > 0 THEN BoundaryLoop(positions, occ, reach) ELSE <<>>
  IN  [hasEnclosure |-> HasEnclosure(enclosedCells),
       enclosedCells |-> enclosedCells,
       enclosureBoundary |-> enclosureBoundary,
       returned |-> TRUE]

\* lines 61-179
DetectEnclosures(positions) ==
  LET occ == BuildOccupied(positions)
      reach == ReachableFromBoundary(occ)
  IN  [occupiedCells |-> occ,
       reachableFromBoundary |-> reach,
       result |-> ResultAfterFlood(positions, occ, reach)]

\* lines 184-190
GetGridDimensions == [width |-> gridWidth, height |-> gridHeight, cellSize |-> cellSize]

(***************************************************************************)
(* The constructor and the inputs the callers are modelled to pass.        *)
(***************************************************************************)
\* lines 17-21
Construct(width, height, size) ==
  /\ gameWidth = width
  /\ gameHeight = height
  /\ cellSize = size
  /\ gridWidth = CeilDiv(width, size)
  /\ gridHeight = CeilDiv(height, size)

\* edges of the small fields: 1 cell, 2 cells (not a multiple of the cell size)
\* and 3 cells
FieldSizes == {DefaultCellSize, DefaultCellSize + 8, 3 * DefaultCellSize}

\* edge of a field whose third cell reaches beyond the field: 72 units are
\* covered by ceil(72 / 32) = 3 cells, the last of which spans 64..95
OverhangFieldSize == 2 * DefaultCellSize + 8

\* the centre of every cell of a gw x gh grid in row-major order, then a point
\* just left of the grid and a point just right of it
PoolFor(gw, gh, size) ==
  [k \in 1..(gw * gh) |->
     [x |-> ((k - 1) % gw) * size + size \div 2,
      y |-> ((k - 1) \div gw) * size + size \div 2]]
  \o << [x |-> -1, y |-> size \div 2],
        [x |-> gw * size, y |-> gh * size - 1] >>

Pool == PoolFor(gridWidth, gridHeight, cellSize)

\* the lists of at most MaxBricks pool positions, in pool order
InputLists(pool) ==
  UNION { { [i \in 1..n |-> pool[f[i]]] :
              f \in { g \in [1..n -> 1..Len(pool)] :
                        \A i \in 1..(n - 1) : g[i] <= g[i + 1] } } :
          n \in 0..MaxBricks }

\* the lists holding the entries of s in any order
PermutedLists(s) ==
  {[i \in 1..Len(s) |-> s[p[i]]] : p \in Permutations(1..Len(s))}

RemoveAt(s, i) == SubSeq(s, 1, i - 1) \o SubSeq(s, i + 1, Len(s))

\* the perimeter cells of the ring rectangle, clockwise from its top left corner
RingCells ==
  [k \in 1..(RingHi - RingLo + 1) |-> [x |-> RingLo + k - 1, y |-> RingLo]] \o
  [k \in 1..(RingHi - RingLo) |-> [x |-> RingHi, y |-> RingLo + k]] \o
  [k \in 1..(RingHi - RingLo) |-> [x |-> RingHi - k, y |-> RingHi]] \o
  [k \in 1..(RingHi - RingLo - 1) |-> [x |-> RingLo, y |-> RingHi - k]]

\* where inside its cell a ring brick lies: a corner, the centre, the far corner
RingOffsets == {0, DefaultCellSize \div 2, DefaultCellSize - 1}

\* the ring lists start at one of the four corners of the rectangle
RingStarts == {1, (RingHi - RingLo) + 1, 2 * (RingHi - RingLo) + 1, 3 * (RingHi - RingLo) + 1}

\* the ring as a brick list: every brick at offset off in its cell, starting at cell r
RingList(off, r) ==
  [k \in 1..Len(RingCells) |->
     LET c == RingCells[((k + r - 2) % Len(RingCells)) + 1]
     IN  [x |-> c.x * DefaultCellSize + off, y |-> c.y * DefaultCellSize + off]]

\* the centre of every cell of the ring rectangle, perimeter and interior
RingAreaCentres ==
  {[x |-> x * DefaultCellSize + DefaultCellSize \div 2,
    y |-> y * DefaultCellSize + DefaultCellSize \div 2] :
     x \in RingLo..RingHi, y \in RingLo..RingHi}

\* a brick at offset off in every rim cell of a gw x gh grid and in no other
\* cell, in row-major order of the cells
RimList(gw, gh, off) ==
  LET cells == [k \in 1..(gw * gh) |-> [x |-> (k - 1) % gw, y |-> (k - 1) \div gw]]
      rim == SelectSeq(cells, LAMBDA c : c.x = 0 \/ c.x = gw - 1 \/ c.y = 0 \/ c.y = gh - 1)
  IN  [k \in 1..Len(rim) |->
         [x |-> rim[k].x * DefaultCellSize + off, y |-> rim[k].y * DefaultCellSize + off]]

\* the fields of the ringed-grid scenario: every grid of 1..MaxRimGrid cells per
\* edge, and the play field of the game
RimFields ==
  {[width |-> gw * DefaultCellSize, height |-> gh * DefaultCellSize] :
     gw \in 1..MaxRimGrid, gh \in 1..MaxRimGrid}
  \cup {[width |-> RingFieldWidth, height |-> RingFieldHeight]}

(***************************************************************************)
(* State machine: a detector and the calls made on it.                     *)
(***************************************************************************)
\* GameScene as its field initialisers and init() leave it
SceneConstructed ==
  /\ bricks = <<>>
  /\ brickCooldown = 0
  /\ activeEnclosures = NoResult
  /\ furnaceDamageTimer = 0
  /\ furnaceOverlay = FALSE
  /\ gameState = "playing"
  /\ isPaused = FALSE
  /\ damageApplied = FALSE
  /\ sincePlacement = BrickCooldownTime
  /\ placementGap = BrickCooldownTime

\* the entities as their field initialisers leave them
Entities == {"Ant", "AntHill", "Player"}

NoReturn == [entity |-> "none", value |-> FALSE]

EntitiesConstructed ==
  /\ hp = [e \in Entities |-> IF e = "Ant" THEN AntHp
                               ELSE IF e = "AntHill" THEN AntHillHp ELSE PlayerHp]
  /\ isDead = [e \in Entities |-> FALSE]
  /\ invulnerableTimer = 0
  /\ lastReturn = NoReturn
  /\ trueReturns = [e \in Entities |-> 0]

NoCallYet ==
  /\ occupiedCells = {}
  /\ reachableFromBoundary = {}
  /\ result = NoResult
  /\ prevPositions = <<>>
  /\ prevOccupied = {}
  /\ prevResult = NoResult
  /\ calls = 0
  /\ pc = "idle"
  /\ queue = <<>>
  /\ visited = {}
  /\ SceneConstructed
  /\ EntitiesConstructed

Init ==
  \E width \in FieldSizes, height \in FieldSizes :
    /\ Construct(width, height, DefaultCellSize)
    /\ brickPositions \in InputLists(PoolFor(CeilDiv(width, DefaultCellSize),
                                             CeilDiv(height, DefaultCellSize),
                                             DefaultCellSize))
    /\ NoCallYet

InitRing ==
  /\ Construct(RingFieldWidth, RingFieldHeight, DefaultCellSize)
  /\ \E off \in RingOffsets, r \in RingStarts : brickPositions = RingList(off, r)
  /\ NoCallYet

\* a detector over a field that is not a multiple of the cell size, as the
\* game's 800x600 field with 32-unit cells is
InitOverhang ==
  /\ Construct(OverhangFieldSize, OverhangFieldSize, DefaultCellSize)
  /\ brickPositions \in InputLists(PoolFor(CeilDiv(OverhangFieldSize, DefaultCellSize),
                                           CeilDiv(OverhangFieldSize, DefaultCellSize),
                                           DefaultCellSize))
  /\ NoCallYet

\* as Call, but occupiedCells is kept from the call before instead of starting empty
CallKeepingOccupied(positions) ==
  LET occ == occupiedCells \cup BuildOccupied(positions)
      reach == ReachableFromBoundary(occ)
  IN  /\ brickPositions' = positions
      /\ occupiedCells' = occ
      /\ reachableFromBoundary' = reach
      /\ result' = ResultAfterFlood(positions, occ, reach)
      /\ prevPositions' = IF calls = 0 THEN <<>> ELSE brickPositions
      /\ prevOccupied' = occupiedCells
      /\ prevResult' = result
      /\ calls' = calls + 1
      /\ UNCHANGED detectorVars
      /\ UNCHANGED stepVars
      /\ UNCHANGED sceneVars
      /\ UNCHANGED entityVars

\* a detector whose caller has put a brick on every rim cell of the grid
InitRim ==
  \E field \in RimFields, off \in RingOffsets :
    /\ Construct(field.width, field.height, DefaultCellSize)
    /\ brickPositions = RimList(CeilDiv(field.width, DefaultCellSize),
                                CeilDiv(field.height, DefaultCellSize), off)
    /\ NoCallYet

\* the return of one call detectEnclosures(positions), r being the values of
\* DetectEnclosures(positions)
CallReturns(positions, r) ==
  /\ brickPositions' = positions
  /\ occupiedCells' = r.occupiedCells
  /\ reachableFromBoundary' = r.reachableFromBoundary
  /\ result' = r.result
  /\ prevPositions' = IF calls = 0 THEN <<>> ELSE brickPositions
  /\ prevOccupied' = occupiedCells
  /\ prevResult' = result
  /\ calls' = calls + 1

\* one call detectEnclosures(positions); the detector's own fields are not written
Call(positions) ==
  LET r == DetectEnclosures(positions)
  IN  /\ CallReturns(positions, r)
      /\ UNCHANGED detectorVars
      /\ UNCHANGED stepVars
      /\ UNCHANGED sceneVars
      /\ UNCHANGED entityVars

\* the first call, with the list chosen initially
Detect ==
  /\ calls = 0
  /\ Call(brickPositions)

\* a second call with the same bricks in another order (or the same order)
DetectPermuted ==
  /\ calls = 1
  /\ \E positions \in PermutedLists(brickPositions) : Call(positions)

\* a second call with one more brick pushed onto the list
DetectWithExtra ==
  /\ calls = 1
  /\ \E b \in {Pool[k] : k \in 1..Len(Pool)} : Call(Append(brickPositions, b))

\* a second call with one brick taken out of the list
DetectWithout ==
  /\ calls = 1
  /\ \E i \in 1..Len(brickPositions) : Call(RemoveAt(brickPositions, i))

Next == Detect \/ DetectPermuted \/ DetectWithExtra \/ DetectWithout

Spec == Init /\ [][Next]_vars

NextRing == Detect \/ DetectWithout

SpecRing == InitRing /\ [][NextRing]_vars

\* lines 61-103 of the first call: the occupancy loop and the seeding, up to the
\* first test of the while loop
BeginDetect ==
  /\ pc = "idle"
  /\ calls = 0
  /\ occupiedCells' = BuildOccupied(brickPositions)
  /\ queue' = SeedQueue(BuildOccupied(brickPositions))
  /\ visited' = SeedVisited(BuildOccupied(brickPositions))
  /\ reachableFromBoundary' = {}
  /\ pc' = "flood"
  /\ UNCHANGED <<brickPositions, result, prevPositions, prevOccupied, prevResult, calls>>
  /\ UNCHANGED detectorVars
  /\ UNCHANGED sceneVars
  /\ UNCHANGED entityVars

\* lines 113-133: the while test holds, one iteration of the loop
FloodStep ==
  /\ pc = "flood"
  /\ Len(queue) > 0
  /\ LET st == BfsStep([queue |-> queue, visited |-> visited,
                        reachable |-> reachableFromBoundary], occupiedCells)
     IN  /\ queue' = st.queue
         /\ visited' = st.visited
         /\ reachableFromBoundary' = st.reachable
  /\ UNCHANGED <<brickPositions, occupiedCells, result, prevPositions, prevOccupied,
                 prevResult, calls, pc>>
  /\ UNCHANGED detectorVars
  /\ UNCHANGED sceneVars
  /\ UNCHANGED entityVars

\* lines 113 and 135-178: the while test fails, the scan and the boundary loop
\* run and the call returns
FinishDetect ==
  /\ pc = "flood"
  /\ Len(queue) = 0
  /\ result' = ResultAfterFlood(brickPositions, occupiedCells, reachableFromBoundary)
  /\ calls' = calls + 1
  /\ pc' = "idle"
  /\ UNCHANGED <<brickPositions, occupiedCells, reachableFromBoundary, prevPositions,
                 prevOccupied, prevResult, queue, visited>>
  /\ UNCHANGED detectorVars
  /\ UNCHANGED sceneVars
  /\ UNCHANGED entityVars

\* a second call with one more brick, in a cell of the ring or inside the ring
DetectWithInner ==
  /\ calls = 1
  /\ \E b \in RingAreaCentres : Call(Append(brickPositions, b))

NextRingInner == Detect \/ DetectWithInner

SpecRingInner == InitRing /\ [][NextRingInner]_vars

NextRim == Detect \/ DetectWithout

SpecRim == InitRim /\ [][NextRim]_vars

NextSteps == BeginDetect \/ FloodStep \/ FinishDetect

\* detectEnclosures is synchronous code on JavaScript's single thread: once
\* called it runs on while it has a statement to execute, hence the weak fairness
SpecSteps == Init /\ [][NextSteps]_vars /\ WF_vars(NextSteps)

NextOverhang == Detect \/ DetectWithExtra \/ DetectWithout

SpecOverhang == InitOverhang /\ [][NextOverhang]_vars

(***************************************************************************)
(* GameScene: the scene that owns the bricks and calls the detector.       *)
(* Times are in milliseconds.  A pose is where the player stands and which *)
(* way it faces when placeBrick runs; it is an input of the handlers.      *)
(***************************************************************************)
\* Math.abs
Abs(v) == IF v < 0 THEN -v ELSE v

\* Phaser.Math.Clamp
Clamp(v, lo, hi) == IF v < lo THEN lo ELSE IF v > hi THEN hi ELSE v

\* the fields of the scene that placeBrick and the furnace code write
Scene ==
  [bricks |-> bricks, brickCooldown |-> brickCooldown,
   activeEnclosures |-> activeEnclosures, furnaceDamageTimer |-> furnaceDamageTimer,
   furnaceOverlay |-> furnaceOverlay]

\* this.bricks.map(brick => brick.getPosition())
PositionsOf(bs) == [i \in 1..Len(bs) |-> [x |-> bs[i].x, y |-> bs[i].y]]

\* the position placeBrick gives the new brick
BrickPositionFor(pose) ==
  LET brickX == IF pose.facing = "left" THEN pose.x - BrickPlacementDistance
                ELSE IF pose.facing = "right" THEN pose.x + BrickPlacementDistance
                ELSE pose.x
      brickY == IF pose.facing = "up" THEN pose.y - BrickPlacementDistance
                ELSE IF pose.facing = "down" THEN pose.y + BrickPlacementDistance
                ELSE pose.y
  IN  [x |-> Clamp(brickX, BrickHalfSize, gameWidth - BrickHalfSize),
       y |-> Clamp(brickY, BrickHalfSize, gameHeight - BrickHalfSize)]

\* activateFurnaceMode's test: the brick lies on one of the boundary positions
IsInBoundary(brick, boundaryPositions) ==
  \E i \in 1..Len(boundaryPositions) :
    /\ Abs(boundaryPositions[i].x - brick.x) < BrickHalfSize
    /\ Abs(boundaryPositions[i].y - brick.y) < BrickHalfSize

\* activateFurnaceMode
ActivateFurnaceMode(sc) ==
  IF ~sc.activeEnclosures.hasEnclosure THEN sc
  ELSE [sc EXCEPT
          !.furnaceOverlay = TRUE,
          !.bricks = [i \in 1..Len(sc.bricks) |->
                        IF IsInBoundary(sc.bricks[i], sc.activeEnclosures.enclosureBoundary)
                          THEN [sc.bricks[i] EXCEPT !.isGlowing = TRUE]
                          ELSE sc.bricks[i]],
          !.furnaceDamageTimer = 0]

\* deactivateFurnaceMode
DeactivateFurnaceMode(sc) ==
  [sc EXCEPT
     !.furnaceOverlay = FALSE,
     !.bricks = [i \in 1..Len(sc.bricks) |-> [sc.bricks[i] EXCEPT !.isGlowing = FALSE]],
     !.furnaceDamageTimer = 0]

\* checkForEnclosures without its branch for the broken enclosure
CheckForEnclosuresWithoutDeactivation(sc, res) ==
  LET stored == [sc EXCEPT !.activeEnclosures = res]
  IN  IF res.hasEnclosure /\ ~sc.activeEnclosures.hasEnclosure
        THEN ActivateFurnaceMode(stored)
        ELSE stored

\* checkForEnclosures from the detector's return on: res is the value returned
CheckForEnclosures(sc, res) ==
  LET wasEnclosed == sc.activeEnclosures.hasEnclosure
      stored == [sc EXCEPT !.activeEnclosures = res]
  IN  IF res.hasEnclosure /\ ~wasEnclosed THEN ActivateFurnaceMode(stored)
      ELSE IF ~res.hasEnclosure /\ wasEnclosed THEN DeactivateFurnaceMode(stored)
      ELSE stored

\* placeBrick up to its call of checkForEnclosures
PushBrick(sc, pose) ==
  [sc EXCEPT
     !.brickCooldown = BrickCooldownTime,
     !.bricks = Append(@, [x |-> BrickPositionFor(pose).x, y |-> BrickPositionFor(pose).y,
                           isGlowing |-> FALSE])]

\* update()'s furnace damage tick; damaged: processFurnaceDamage ran past its guard
FurnaceTick(sc) ==
  IF ~sc.activeEnclosures.hasEnclosure THEN [scene |-> sc, damaged |-> FALSE]
  ELSE IF sc.furnaceDamageTimer + FrameDelta >= FurnaceDamageInterval
         THEN [scene |-> [sc EXCEPT !.furnaceDamageTimer = 0], damaged |-> TRUE]
         ELSE [scene |-> [sc EXCEPT !.furnaceDamageTimer = @ + FrameDelta],
               damaged |-> FALSE]

\* the handler leaves the scene's fields as in the record
SceneBecomes(sc) ==
  /\ bricks' = sc.bricks
  /\ brickCooldown' = sc.brickCooldown
  /\ activeEnclosures' = sc.activeEnclosures
  /\ furnaceDamageTimer' = sc.furnaceDamageTimer
  /\ furnaceOverlay' = sc.furnaceOverlay

\* placeBrick returning without its call of checkForEnclosures
PlaceBrickWithoutDetection(pushed, r, tick) ==
  /\ UNCHANGED callVars
  /\ SceneBecomes(IF tick THEN FurnaceTick(pushed).scene ELSE pushed)
  /\ damageApplied' = (tick /\ FurnaceTick(pushed).damaged)

\* placeBrick from its call of checkForEnclosures on, and what the handler does
\* after it: pushed is the scene with the new brick, r what detectEnclosures
\* computes for its bricks, tick whether update()'s furnace tick follows
PlaceBrick(pushed, r, tick) ==
  LET checked == CheckForEnclosures(pushed, r.result)
      final == IF tick THEN FurnaceTick(checked) ELSE [scene |-> checked, damaged |-> FALSE]
  IN  /\ CallReturns(PositionsOf(pushed.bricks), r)
      /\ SceneBecomes(final.scene)
      /\ damageApplied' = final.damaged

\* the frame time since the latest placement, counted up to the cooldown
Elapsed(t) == IF t + FrameDelta > BrickCooldownTime THEN BrickCooldownTime ELSE t + FrameDelta

\* init() and create() when the scene is started again: the brick list, the
\* state and the pause flag are reset and a detector of the same dimensions is
\* constructed; the other fields keep the values the last game left
StartScene ==
  /\ bricks' = <<>>
  /\ gameState' = "playing"
  /\ isPaused' = FALSE
  /\ damageApplied' = FALSE
  /\ UNCHANGED <<brickCooldown, activeEnclosures, furnaceDamageTimer, furnaceOverlay,
                 sincePlacement, placementGap>>
  /\ UNCHANGED callVars

\* update(time, delta) with delta = FrameDelta.  key is the key that went down
\* since the last frame, pose the player's pose, outcome what checkGameOver
\* finds at the end of the frame
Update(key, pose, outcome) ==
  /\ UNCHANGED detectorVars
  /\ UNCHANGED stepVars
  /\ UNCHANGED entityVars
  /\ IF key = "R" /\ gameState # "playing"
       THEN StartScene
     ELSE IF key = "ESC" /\ gameState = "playing"
       THEN /\ isPaused' = ~isPaused
            /\ damageApplied' = FALSE
            /\ UNCHANGED <<bricks, brickCooldown, activeEnclosures, furnaceDamageTimer,
                           furnaceOverlay, gameState, sincePlacement, placementGap>>
            /\ UNCHANGED callVars
     ELSE IF isPaused \/ gameState # "playing"
       THEN /\ damageApplied' = FALSE
            /\ UNCHANGED <<bricks, brickCooldown, activeEnclosures, furnaceDamageTimer,
                           furnaceOverlay, gameState, isPaused, sincePlacement,
                           placementGap>>
            /\ UNCHANGED callVars
     ELSE LET cooled == [Scene EXCEPT
                           !.brickCooldown = IF @ > 0 THEN @ - FrameDelta ELSE @]
          IN  /\ IF key = "K" /\ cooled.brickCooldown <= 0
                      /\ Len(bricks) < MaxBricksInScene
                   THEN /\ PlaceBrick(PushBrick(cooled, pose),
                                      DetectEnclosures(PositionsOf(PushBrick(cooled, pose).bricks)),
                                      TRUE)
                        /\ placementGap' = Elapsed(sincePlacement)
                        /\ sincePlacement' = 0
                   ELSE /\ SceneBecomes(FurnaceTick(cooled).scene)
                        /\ damageApplied' = FurnaceTick(cooled).damaged
                        /\ sincePlacement' = Elapsed(sincePlacement)
                        /\ UNCHANGED placementGap
                        /\ UNCHANGED callVars
              /\ gameState' = outcome
              /\ UNCHANGED isPaused

\* the pointerdown handler without its test of the cooldown
PointerDownIgnoringCooldown(pose) ==
  /\ UNCHANGED detectorVars
  /\ UNCHANGED stepVars
  /\ UNCHANGED entityVars
  /\ UNCHANGED <<gameState, isPaused>>
  /\ Len(bricks) < MaxBricksInScene
  /\ PlaceBrick(PushBrick(Scene, pose),
                DetectEnclosures(PositionsOf(PushBrick(Scene, pose).bricks)),
                FALSE)
  /\ placementGap' = sincePlacement
  /\ sincePlacement' = 0

\* the scene's pointerdown handler, for a pointer with the right button down
PointerDown(pose) ==
  /\ UNCHANGED detectorVars
  /\ UNCHANGED stepVars
  /\ UNCHANGED entityVars
  /\ UNCHANGED <<gameState, isPaused>>
  /\ IF brickCooldown <= 0 /\ Len(bricks) < MaxBricksInScene
       THEN /\ PlaceBrick(PushBrick(Scene, pose),
                          DetectEnclosures(PositionsOf(PushBrick(Scene, pose).bricks)),
                          FALSE)
            /\ placementGap' = sincePlacement
            /\ sincePlacement' = 0
       ELSE /\ damageApplied' = FALSE
            /\ UNCHANGED <<bricks, brickCooldown, activeEnclosures, furnaceDamageTimer,
                           furnaceOverlay, sincePlacement, placementGap>>
            /\ UNCHANGED callVars

\* returnToMenu() from the pause menu, then MenuScene starting the GameScene
\* again: the same scene object runs init() and create() once more
ReturnToMenuAndStart ==
  /\ isPaused
  /\ StartScene
  /\ UNCHANGED detectorVars
  /\ UNCHANGED stepVars
  /\ UNCHANGED entityVars

\* the poses the player takes to place bricks: four around the cell (12, 9),
\* one onto that cell, one in the field's corner
PlayerPoses ==
  << [x |-> 400, y |-> 320, facing |-> "up"],
     [x |-> 400, y |-> 280, facing |-> "down"],
     [x |-> 420, y |-> 300, facing |-> "left"],
     [x |-> 380, y |-> 300, facing |-> "right"],
     [x |-> 400, y |-> 350, facing |-> "up"],
     [x |-> 790, y |-> 590, facing |-> "right"] >>

\* the poses tried when n bricks are placed
PosesFor(n) ==
  IF n < 4 THEN {PlayerPoses[n + 1]}
  ELSE {PlayerPoses[1], PlayerPoses[5], PlayerPoses[6]}

\* the keys and outcomes of a frame: one event at a time, and at most
\* MaxGameCalls placements
FrameInputs ==
  {[key |-> k, outcome |-> "playing"] :
     k \in {"none", "R", "ESC"} \cup (IF calls < MaxGameCalls THEN {"K"} ELSE {})}
  \cup {[key |-> "none", outcome |-> o] : o \in {"won", "lost"}}

InitGame ==
  /\ Construct(RingFieldWidth, RingFieldHeight, DefaultCellSize)
  /\ brickPositions = <<>>
  /\ NoCallYet

Frame == \E in \in FrameInputs : \E pose \in PosesFor(Len(bricks)) :
           Update(in.key, pose, in.outcome)

RightClick == /\ calls < MaxGameCalls
              /\ \E pose \in PosesFor(Len(bricks)) : PointerDown(pose)

NextGame == Frame \/ RightClick \/ ReturnToMenuAndStart

SpecGame == InitGame /\ [][NextGame]_vars

\* a game played to the brick limit: the player closes the ring of PlayerPoses,
\* then lays a row of bricks to its right, one step of LineStep after the other
LinePose(n) ==
  IF n < 4 THEN PlayerPoses[n + 1]
  ELSE [x |-> 430 + LineStep * (n - 3), y |-> 350, facing |-> "up"]

FrameInLine == \E key \in {"none", "K", "ESC"} : \E outcome \in {"playing", "lost"} :
                 Update(key, LinePose(Len(bricks)), outcome)

RightClickInLine == PointerDown(LinePose(Len(bricks)))

NextGameLine == FrameInLine \/ RightClickInLine

SpecGameLine == InitGame /\ [][NextGameLine]_vars

(***************************************************************************)
(* The entities: an Ant, an AntHill and a Player, and the takeDamage calls  *)
(* made on them.                                                            *)
(***************************************************************************)
\* the amounts passed to takeDamage
Amounts == {0, 1, 2, LethalAmount}

\* takeDamage's early return: Ant and AntHill test isDead, Player its
\* invulnerability as well
Refuses(e) == isDead[e] \/ (e = "Player" /\ invulnerableTimer > 0)

\* hp after this.hp -= amount without the reset to 0
DamagedHpUnclamped(current, amount) == current - amount

\* hp after this.hp -= amount and the reset to 0
DamagedHp(current, amount) == IF current - amount <= 0 THEN 0 ELSE current - amount

\* entity.takeDamage(amount)
TakeDamage(e, amount) ==
  /\ IF Refuses(e)
       THEN /\ lastReturn' = [entity |-> e, value |-> FALSE]
            /\ UNCHANGED <<hp, isDead, invulnerableTimer, trueReturns>>
       ELSE /\ hp' = [hp EXCEPT ![e] = DamagedHp(hp[e], amount)]
            /\ IF hp[e] - amount <= 0
                 THEN /\ isDead' = [isDead EXCEPT ![e] = TRUE]
                      /\ lastReturn' = [entity |-> e, value |-> TRUE]
                      /\ trueReturns' = [trueReturns EXCEPT ![e] = @ + 1]
                      /\ UNCHANGED invulnerableTimer
                 ELSE /\ invulnerableTimer' = IF e = "Player" THEN InvulnerableDuration
                                              ELSE invulnerableTimer
                      /\ lastReturn' = [entity |-> e, value |-> FALSE]
                      /\ UNCHANGED <<isDead, trueReturns>>
  /\ UNCHANGED detectorVars
  /\ UNCHANGED callVars
  /\ UNCHANGED stepVars
  /\ UNCHANGED sceneVars

\* Player.update(), as far as the fields read by takeDamage go
PlayerUpdate ==
  /\ ~isDead["Player"]
  /\ invulnerableTimer > 0
  /\ invulnerableTimer' = invulnerableTimer - FrameDelta
  /\ lastReturn' = NoReturn
  /\ UNCHANGED <<hp, isDead, trueReturns>>
  /\ UNCHANGED detectorVars
  /\ UNCHANGED callVars
  /\ UNCHANGED stepVars
  /\ UNCHANGED sceneVars

Damage == \E e \in Entities : \E amount \in Amounts : TakeDamage(e, amount)

NextDamage == Damage \/ PlayerUpdate

SpecDamage == InitGame /\ [][NextDamage]_vars

(***************************************************************************)
(* Reference notions the properties are stated with.  They are written     *)
(* from the meaning of the words (cell, rim, path), not from the code.      *)
(***************************************************************************)
Range(seq) == {seq[i] : i \in 1..Len(seq)}

\* the cells of the grid, as keys
GridCells == {<<x, y>> : x \in 0..(gridWidth - 1), y \in 0..(gridHeight - 1)}

\* the cells on the outer rim of the grid
RimCells ==
  {c \in GridCells : c[1] = 0 \/ c[1] = gridWidth - 1 \/ c[2] = 0 \/ c[2] = gridHeight - 1}

\* the grid cell (x, y) covers the world position pos
Covers(x, y, pos) ==
  /\ x * cellSize <= pos.x /\ pos.x < (x + 1) * cellSize
  /\ y * cellSize <= pos.y /\ pos.y < (y + 1) * cellSize

\* the position lies in no cell of the grid
OutOfGrid(pos) == \A c \in GridCells : ~Covers(c[1], c[2], pos)

\* the position lies outside the play field [0, gameWidth) x [0, gameHeight)
OutOfField(pos) ==
  ~(0 <= pos.x /\ pos.x < gameWidth /\ 0 <= pos.y /\ pos.y < gameHeight)

\* the cells of the grid covered by at least one brick of the list
CoveredCells(positions) ==
  {c \in GridCells : \E i \in 1..Len(positions) : Covers(c[1], c[2], positions[i])}

\* two cells share an edge (up/down/left/right, never diagonal)
Adjacent4(c, d) ==
  \/ c[1] = d[1] /\ (c[2] = d[2] + 1 \/ d[2] = c[2] + 1)
  \/ c[2] = d[2] /\ (c[1] = d[1] + 1 \/ d[1] = c[1] + 1)

\* the cells of free that a path of 4-adjacent cells of free joins to a cell of from
RECURSIVE PathClosure(_, _)
PathClosure(from, free) ==
  LET more == from \cup {c \in free : \E d \in from : Adjacent4(c, d)}
  IN  IF more = from THEN from ELSE PathClosure(more, free)

\* the unoccupied cells with a path of unoccupied cells to the rim
RimReachable(positions) ==
  LET free == GridCells \ CoveredCells(positions)
  IN  PathClosure(free \cap RimCells, free)

\* the grid cells of the centres listed in a result's enclosedCells
EnclosedKeys(res) ==
  {c \in GridCells : \E i \in 1..Len(res.enclosedCells) : Covers(c[1], c[2], res.enclosedCells[i])}

\* the brick lies in a grid cell that shares an edge with a cell of the set
TouchesCell(brick, cells) ==
  \E c \in GridCells : Covers(c[1], c[2], brick) /\ \E e \in cells : Adjacent4(c, e)

\* the least number of cells of edge size that cover a length
CellsToCover(length, size) ==
  CHOOSE n \in 0..length : n * size >= length /\ (n = 0 \/ (n - 1) * size < length)

\* how many entries of the sequence equal e
Count(seq, e) == Cardinality({i \in 1..Len(seq) : seq[i] = e})

\* the same bricks in some order
IsPermutation(s, t) ==
  /\ Len(s) = Len(t)
  /\ \A e \in Range(s) \cup Range(t) : Count(s, e) = Count(t, e)

(***************************************************************************)
(* Properties.                                                             *)
(***************************************************************************)
\* C1: after detectEnclosures every in-grid cell is in exactly one of the sets
\* occupied, reachable and enclosed: the three are pairwise disjoint and their
\* union is the whole grid.
C1_Partition ==
  result.returned =>
    LET enclosed == EnclosedKeys(result)
    IN  /\ occupiedCells \cup reachableFromBoundary \cup enclosed = GridCells
        /\ occupiedCells \cap reachableFromBoundary = {}
        /\ occupiedCells \cap enclosed = {}
        /\ reachableFromBoundary \cap enclosed = {}
        /\ Len(result.enclosedCells) = Cardinality(enclosed)

\* a call has returned with bricks, reachable cells and enclosed cells all present
C1_Witness ==
  /\ result.returned
  /\ occupiedCells # {}
  /\ reachableFromBoundary # {}
  /\ result.enclosedCells # <<>>

\* C2: a cell is reported in enclosedCells iff it is unoccupied and no path of
\* 4-adjacent unoccupied in-grid cells joins it to a cell of the outer rim.
C2_RimReachability ==
  result.returned =>
    EnclosedKeys(result) =
      (GridCells \ CoveredCells(brickPositions)) \ RimReachable(brickPositions)

\* a call has returned an enclosed cell while another inner cell, or the same
\* grid before, was reached from the rim through a gap between bricks
C2_Witness ==
  /\ calls = 2
  /\ result.hasEnclosure
  /\ ~prevResult.hasEnclosure
  /\ Len(brickPositions) = Len(prevPositions) + 1

\* the centres of the cells strictly inside the ring rectangle
RingInteriorCentres ==
  {[x |-> x * DefaultCellSize + DefaultCellSize \div 2,
    y |-> y * DefaultCellSize + DefaultCellSize \div 2] :
     x \in (RingLo + 1)..(RingHi - 1), y \in (RingLo + 1)..(RingHi - 1)}

\* the brick lies in one of the four corner cells of the ring rectangle
InRingCorner(brick) ==
  \E x \in {RingLo, RingHi}, y \in {RingLo, RingHi} : Covers(x, y, brick)

\* the input of the latest call is the complete ring
CompleteRing == calls = 1 /\ Len(brickPositions) = Len(RingCells)

\* C3: on the 25x19 grid with a brick on every perimeter cell of the rectangle
\* (5,5)..(10,10), hasEnclosure is true and enclosedCells is exactly the 16
\* interior cells, each as its centre (x*32+16, y*32+16).
C3_RingEnclosed ==
  (CompleteRing /\ gridWidth = 25 /\ gridHeight = 19) =>
    /\ result.hasEnclosure
    /\ Range(result.enclosedCells) = RingInteriorCentres
    /\ Len(result.enclosedCells) = Cardinality(RingInteriorCentres)

\* the call on the complete ring has returned
C3_Witness == CompleteRing /\ result.returned /\ gridWidth = 25 /\ gridHeight = 19

\* C4 as stated: every ring brick, the four corner bricks included, appears in
\* enclosureBoundary exactly once.
C4_FullRingBoundary ==
  CompleteRing =>
    \A i \in 1..Len(brickPositions) :
      Count(result.enclosureBoundary, brickPositions[i]) = 1

\* C4 amended: enclosureBoundary is the ring without its four corner bricks,
\* in input order, each of the other 16 bricks exactly once.
C4_RingBoundaryWithoutCorners ==
  CompleteRing =>
    /\ result.enclosureBoundary =
         SelectSeq(brickPositions, LAMBDA brick : ~InRingCorner(brick))
    /\ \A i \in 1..Len(brickPositions) :
         Count(result.enclosureBoundary, brickPositions[i]) =
           IF InRingCorner(brickPositions[i]) THEN 0 ELSE 1

\* the call on the complete ring has returned a boundary that lacks a ring brick
C4_Witness ==
  /\ CompleteRing
  /\ result.enclosureBoundary # <<>>
  /\ \E i \in 1..Len(brickPositions) : brickPositions[i] \notin Range(result.enclosureBoundary)

\* the latest call was made on the ring with one brick taken out
BrokenRing ==
  /\ calls = 2
  /\ Len(prevPositions) = Len(RingCells)
  /\ Len(brickPositions) = Len(RingCells) - 1

\* the brick of the previous call's list that the latest call's list lacks
RemovedBrick == CHOOSE brick \in Range(prevPositions) : brick \notin Range(brickPositions)

\* C5 as stated: removing any single perimeter brick, corner or edge, gives
\* hasEnclosure = false and enclosedCells = [].
C5_AnyGapOpensRing ==
  BrokenRing => ~result.hasEnclosure /\ result.enclosedCells = <<>>

\* C5 amended: removing a perimeter brick that is not a corner gives
\* hasEnclosure = false and enclosedCells = []; removing a corner brick leaves
\* the result's hasEnclosure and enclosedCells as they were.
C5_EdgeGapOpensRing ==
  BrokenRing =>
    IF InRingCorner(RemovedBrick)
      THEN /\ result.hasEnclosure
           /\ result.enclosedCells = prevResult.enclosedCells
      ELSE /\ ~result.hasEnclosure
           /\ result.enclosedCells = <<>>

\* an edge brick was taken out and the enclosure is gone
C5_Witness ==
  /\ BrokenRing
  /\ ~InRingCorner(RemovedBrick)
  /\ prevResult.hasEnclosure
  /\ ~result.hasEnclosure

\* C6: every position in enclosureBoundary is an input brick whose grid cell has
\* an enclosed cell among its 4 orthogonal neighbours; a brick without such a
\* neighbour never appears.
C6_BoundarySound ==
  result.returned =>
    \A i \in 1..Len(result.enclosureBoundary) :
      /\ result.enclosureBoundary[i] \in Range(brickPositions)
      /\ TouchesCell(result.enclosureBoundary[i], EnclosedKeys(result))

\* an enclosure was returned, and a brick inside the grid is left out of the boundary
C6_Witness ==
  /\ result.hasEnclosure
  /\ result.enclosureBoundary # <<>>
  /\ \E i \in 1..Len(brickPositions) :
       /\ ~OutOfGrid(brickPositions[i])
       /\ brickPositions[i] \notin Range(result.enclosureBoundary)

\* C7: every input brick whose grid cell is 4-adjacent to an enclosed cell appears
\* in enclosureBoundary, and the entries of enclosureBoundary are in the relative
\* order of the input list.
C7_BoundaryComplete ==
  result.returned =>
    /\ \A i \in 1..Len(brickPositions) :
         TouchesCell(brickPositions[i], EnclosedKeys(result)) =>
           brickPositions[i] \in Range(result.enclosureBoundary)
    /\ result.enclosureBoundary =
         SelectSeq(brickPositions, LAMBDA brick : brick \in Range(result.enclosureBoundary))

\* the same bricks were passed in another order, and the boundary follows the new order
C7_Witness ==
  /\ calls = 2
  /\ IsPermutation(prevPositions, brickPositions)
  /\ Len(result.enclosureBoundary) >= 2
  /\ result.enclosureBoundary # prevResult.enclosureBoundary

\* C8: for brick sets S1 subset of S2, every cell enclosed under S1 is enclosed
\* or occupied under S2.
C8_MonotoneUnderGrowth ==
  (calls = 2 /\ Range(prevPositions) \subseteq Range(brickPositions)) =>
    EnclosedKeys(prevResult) \subseteq
      EnclosedKeys(result) \cup CoveredCells(brickPositions)

\* a brick was added on a cell that the call before reported enclosed
C8_Witness ==
  /\ calls = 2
  /\ Range(prevPositions) \subseteq Range(brickPositions)
  /\ Range(prevPositions) # Range(brickPositions)
  /\ EnclosedKeys(prevResult) \cap CoveredCells(brickPositions) # {}

\* C9: detectEnclosures applied to any permutation of a list returns the same
\* hasEnclosure and the same set of enclosedCells, and two calls with the same
\* list return identical results.
C9_OrderIndependent ==
  (calls = 2 /\ IsPermutation(prevPositions, brickPositions)) =>
    /\ result.hasEnclosure = prevResult.hasEnclosure
    /\ Range(result.enclosedCells) = Range(prevResult.enclosedCells)
    /\ (brickPositions = prevPositions => result = prevResult)

\* the bricks of an enclosure were passed again in another order
C9_Witness ==
  /\ calls = 2
  /\ IsPermutation(prevPositions, brickPositions)
  /\ brickPositions # prevPositions
  /\ prevResult.hasEnclosure

\* C10: a brick whose mapped cell (floor of position / cellSize) lies outside the
\* grid never occupies a cell and never appears in enclosureBoundary, and the
\* whole result is the result of the call without that brick.
C10_OutOfGridIgnored ==
  result.returned =>
    /\ \A i \in 1..Len(brickPositions) :
         OutOfGrid(brickPositions[i]) =>
           /\ <<FloorDiv(brickPositions[i].x, cellSize),
                FloorDiv(brickPositions[i].y, cellSize)>> \notin occupiedCells
           /\ brickPositions[i] \notin Range(result.enclosureBoundary)
    /\ calls = 2 =>
         /\ \A i \in 1..Len(brickPositions) :
              (OutOfGrid(brickPositions[i]) /\ RemoveAt(brickPositions, i) = prevPositions)
                => result = prevResult
         /\ \A i \in 1..Len(prevPositions) :
              (OutOfGrid(prevPositions[i]) /\ RemoveAt(prevPositions, i) = brickPositions)
                => result = prevResult

\* a brick outside the grid was added to the bricks of an enclosure
C10_Witness ==
  /\ calls = 2
  /\ result.hasEnclosure
  /\ Len(brickPositions) = Len(prevPositions) + 1
  /\ OutOfGrid(brickPositions[Len(brickPositions)])
  /\ RemoveAt(brickPositions, Len(brickPositions)) = prevPositions

\* C11: a brick position outside [0, fieldWidth) x [0, fieldHeight) never changes
\* hasEnclosure, enclosedCells or enclosureBoundary relative to the call without
\* it, also when the field is not a multiple of the cell size.
C11_OutOfFieldIgnored ==
  calls = 2 =>
    /\ \A i \in 1..Len(brickPositions) :
         (OutOfField(brickPositions[i]) /\ RemoveAt(brickPositions, i) = prevPositions)
           => /\ result.hasEnclosure = prevResult.hasEnclosure
              /\ result.enclosedCells = prevResult.enclosedCells
              /\ result.enclosureBoundary = prevResult.enclosureBoundary
    /\ \A i \in 1..Len(prevPositions) :
         (OutOfField(prevPositions[i]) /\ RemoveAt(prevPositions, i) = brickPositions)
           => /\ result.hasEnclosure = prevResult.hasEnclosure
              /\ result.enclosedCells = prevResult.enclosedCells
              /\ result.enclosureBoundary = prevResult.enclosureBoundary

\* C12: detectEnclosures([]) on any grid, 1-wide, 1-high and 2x2 grids included,
\* returns hasEnclosure = false, enclosedCells = [] and enclosureBoundary = [],
\* every cell of the grid being reachable from the rim.
C12_EmptyInput ==
  (result.returned /\ brickPositions = <<>>) =>
    /\ result.hasEnclosure = FALSE
    /\ result.enclosedCells = <<>>
    /\ result.enclosureBoundary = <<>>
    /\ reachableFromBoundary = GridCells

\* the empty list was passed on a grid wider than high with more than one cell
C12_Witness ==
  /\ result.returned
  /\ brickPositions = <<>>
  /\ gridHeight = 1
  /\ gridWidth > 1

\* C13: detectEnclosures is total: for every brick list (the empty list, lists
\* with duplicates and with positions outside the grid) on every grid the work
\* queue eventually becomes empty and the call returns a fully formed result,
\* and from then on that stays so.
C13_Total ==
  <>[](/\ pc = "idle"
       /\ Len(queue) = 0
       /\ result.returned
       /\ result.hasEnclosure \in BOOLEAN
       /\ result.enclosedCells \in Seq([x : Int, y : Int])
       /\ result.enclosureBoundary \in Seq([x : Int, y : Int]))

\* the call followed step by step has returned on a list that holds a position
\* twice and a position outside the grid
C13_Witness ==
  /\ pc = "idle"
  /\ result.returned
  /\ visited # {}
  /\ \E i \in 1..Len(brickPositions) : OutOfGrid(brickPositions[i])
  /\ \E i, j \in 1..Len(brickPositions) : i < j /\ brickPositions[i] = brickPositions[j]

\* C14: detectEnclosures has no side effects: after any calls getGridDimensions
\* returns width = ceil(fieldWidth / cellSize), height = ceil(fieldHeight /
\* cellSize) and the cellSize of construction, and a call's result is determined
\* by the grid and the call's own brick list alone: the enclosed cells are the
\* unoccupied cells of that list without a path to the rim, the boundary is that
\* list's bricks next to them, whatever the call before was given.
C14_NoSideEffects ==
  /\ GetGridDimensions = [width |-> CellsToCover(gameWidth, cellSize),
                          height |-> CellsToCover(gameHeight, cellSize),
                          cellSize |-> DefaultCellSize]
  /\ result.returned =>
       LET enclosed == (GridCells \ CoveredCells(brickPositions)) \ RimReachable(brickPositions)
       IN  /\ result.hasEnclosure = (enclosed # {})
           /\ EnclosedKeys(result) = enclosed
           /\ Len(result.enclosedCells) = Cardinality(enclosed)
           /\ result.enclosureBoundary =
                SelectSeq(brickPositions, LAMBDA brick : TouchesCell(brick, enclosed))

\* on a field that is not a multiple of the cell size, a second call without one
\* brick of the enclosure of the first call has returned no enclosure
C14_Witness ==
  /\ calls = 2
  /\ gameWidth % cellSize # 0
  /\ prevResult.hasEnclosure
  /\ ~result.hasEnclosure
  /\ Len(brickPositions) < Len(prevPositions)

\* C15: in every returned result hasEnclosure is true iff enclosedCells is not
\* empty, and enclosureBoundary is empty whenever hasEnclosure is false.
C15_FlagMatchesCells ==
  result.returned =>
    /\ result.hasEnclosure <=> (Len(result.enclosedCells) > 0)
    /\ ~result.hasEnclosure => result.enclosureBoundary = <<>>

\* both kinds of result were returned in a row: an enclosure with its boundary,
\* then, for bricks that still include neighbours of the opened cell, none
C15_Witness ==
  /\ calls = 2
  /\ prevResult.hasEnclosure
  /\ prevResult.enclosureBoundary # <<>>
  /\ ~result.hasEnclosure
  /\ result.enclosedCells = <<>>
  /\ \E i \in 1..Len(brickPositions) : brickPositions[i] \in Range(prevResult.enclosureBoundary)

\* the grid cell, as a key, that covers the world position
CellOf(pos) == CHOOSE c \in GridCells : Covers(c[1], c[2], pos)

\* C16: enclosedCells lists each enclosed cell exactly once, in row-major order
\* (ascending y, ascending x within one y), each as its centre
\* (x*cellSize + cellSize/2, y*cellSize + cellSize/2), and floor-division of a
\* listed centre by cellSize gives back the cell.
C16_RowMajorCentres ==
  result.returned =>
    LET cells == result.enclosedCells
    IN  /\ {CellOf(cells[i]) : i \in 1..Len(cells)} =
             (GridCells \ occupiedCells) \ reachableFromBoundary
        /\ \A i \in 1..Len(cells) :
             /\ ~OutOfGrid(cells[i])
             /\ cells[i].x = CellOf(cells[i])[1] * cellSize + cellSize \div 2
             /\ cells[i].y = CellOf(cells[i])[2] * cellSize + cellSize \div 2
             /\ WorldToGrid(cells[i].x, cells[i].y) =
                  [x |-> CellOf(cells[i])[1], y |-> CellOf(cells[i])[2]]
        /\ \A i, j \in 1..Len(cells) :
             i < j => \/ cells[i].y < cells[j].y
                      \/ cells[i].y = cells[j].y /\ cells[i].x < cells[j].x

\* a call has returned enclosed cells of several rows and several columns
C16_Witness ==
  /\ result.returned
  /\ \E i, j \in 1..Len(result.enclosedCells) :
       /\ result.enclosedCells[i].y < result.enclosedCells[j].y
       /\ result.enclosedCells[i].x > result.enclosedCells[j].x

\* the latest call was given the list of the call before plus one brick, pushed
\* at the end, that lies in a cell a brick of that list already occupies
DuplicateAdded ==
  /\ calls = 2
  /\ Len(brickPositions) = Len(prevPositions) + 1
  /\ RemoveAt(brickPositions, Len(brickPositions)) = prevPositions
  /\ ~OutOfGrid(brickPositions[Len(brickPositions)])
  /\ CellOf(brickPositions[Len(brickPositions)]) \in CoveredCells(prevPositions)

\* C17: adding to the input a second brick that maps to an already occupied cell
\* leaves hasEnclosure and enclosedCells unchanged.
C17_DuplicateIdempotent ==
  DuplicateAdded =>
    /\ result.hasEnclosure = prevResult.hasEnclosure
    /\ result.enclosedCells = prevResult.enclosedCells
    /\ occupiedCells = prevOccupied

\* a brick of an enclosure's boundary was passed a second time
C17_Witness ==
  /\ DuplicateAdded
  /\ prevResult.hasEnclosure
  /\ brickPositions[Len(brickPositions)] \in Range(prevResult.enclosureBoundary)

\* C18: each input brick contributes at most one entry to enclosureBoundary,
\* however many of its neighbours are enclosed, so enclosureBoundary is never
\* longer than the input list.
C18_OneEntryPerBrick ==
  result.returned =>
    /\ Len(result.enclosureBoundary) <= Len(brickPositions)
    /\ \A e \in Range(result.enclosureBoundary) :
         Count(result.enclosureBoundary, e) <= Count(brickPositions, e)

\* a brick with at least two enclosed neighbours is in the boundary
C18_Witness ==
  /\ result.returned
  /\ \E i \in 1..Len(result.enclosureBoundary) :
       \E c, d \in EnclosedKeys(result) :
         /\ c # d
         /\ TouchesCell(result.enclosureBoundary[i], {c})
         /\ TouchesCell(result.enclosureBoundary[i], {d})

\* C19: no two entries of enclosureBoundary map to the same grid cell, even when
\* the input holds several bricks in one cell.
C19_OneEntryPerCell ==
  result.returned =>
    \A i, j \in 1..Len(result.enclosureBoundary) :
      i < j => \/ OutOfGrid(result.enclosureBoundary[i])
               \/ OutOfGrid(result.enclosureBoundary[j])
               \/ CellOf(result.enclosureBoundary[i]) # CellOf(result.enclosureBoundary[j])

\* the latest call was given bricks that cover every rim cell and no other cell
RimFullyOccupied == result.returned /\ CoveredCells(brickPositions) = RimCells

\* C20: when every rim cell of the grid is occupied and every non-rim cell is
\* empty, all non-rim cells are enclosed and enclosureBoundary consists of
\* every rim brick that is 4-adjacent to a non-rim cell; rim bricks without
\* such a neighbour, as those in the grid corners, are absent.
C20_RingedGrid ==
  RimFullyOccupied =>
    /\ EnclosedKeys(result) = GridCells \ RimCells
    /\ Len(result.enclosedCells) = Cardinality(GridCells \ RimCells)
    /\ result.hasEnclosure = (GridCells # RimCells)
    /\ result.enclosureBoundary =
         SelectSeq(brickPositions, LAMBDA brick : TouchesCell(brick, GridCells \ RimCells))
    /\ \A i \in 1..Len(brickPositions) :
         (\E x \in {0, gridWidth - 1}, y \in {0, gridHeight - 1} :
            Covers(x, y, brickPositions[i]))
           => brickPositions[i] \notin Range(result.enclosureBoundary)

\* the call on a fully ringed grid has returned enclosed cells and a boundary
\* that leaves out some of the rim bricks
C20_Witness ==
  /\ RimFullyOccupied
  /\ result.hasEnclosure
  /\ Len(result.enclosedCells) > 1
  /\ result.enclosureBoundary # <<>>
  /\ Len(result.enclosureBoundary) < Len(brickPositions)

\* C24: on every grid, one cell wide or high included, each unoccupied rim cell
\* is seeded into the queue exactly once and every cell is enqueued at most
\* once over the traversal, so there are at most gridWidth*gridHeight dequeue
\* steps: the queue never holds a cell twice nor a cell already dequeued, and
\* the cells dequeued so far plus those waiting are no more than the grid has.
C24_EnqueuedOnce ==
  pc = "flood" =>
    /\ \A i, j \in 1..Len(queue) : i < j => queue[i] # queue[j]
    /\ \A i \in 1..Len(queue) :
         GetPositionKey(queue[i].x, queue[i].y) \notin reachableFromBoundary
    /\ Len(queue) + Cardinality(reachableFromBoundary) <= gridWidth * gridHeight

\* C27: no rim cell is ever enclosed: every enclosed cell (x, y) has
\* 0 < x < gridWidth - 1 and 0 < y < gridHeight - 1, and a grid with
\* gridWidth <= 2 or gridHeight <= 2 never reports an enclosure.
C27_RimNeverEnclosed ==
  result.returned =>
    /\ \A c \in EnclosedKeys(result) :
         0 < c[1] /\ c[1] < gridWidth - 1 /\ 0 < c[2] /\ c[2] < gridHeight - 1
    /\ \A i \in 1..Len(result.enclosedCells) : ~OutOfGrid(result.enclosedCells[i])
    /\ (gridWidth <= 2 \/ gridHeight <= 2) => ~result.hasEnclosure

\* a call has returned while an unoccupied rim cell had a brick on every one of
\* its neighbours inside the grid
C27_Witness ==
  /\ result.returned
  /\ \E c \in RimCells \ occupiedCells :
       /\ \E d \in GridCells : Adjacent4(c, d)
       /\ \A d \in GridCells : Adjacent4(c, d) => d \in CoveredCells(brickPositions)

\* C28: whenever hasEnclosure is true the occupancy set holds at least 4 cells
\* and enclosureBoundary has entries in at least 4 distinct grid cells; a list
\* covering fewer than 4 cells never gives an enclosure, and an enclosure never
\* comes with an empty boundary.
C28_FourBricksAtLeast ==
  result.returned =>
    /\ result.hasEnclosure =>
         /\ Cardinality(occupiedCells) >= 4
         /\ Cardinality(CoveredCells(result.enclosureBoundary)) >= 4
         /\ result.enclosureBoundary # <<>>
    /\ Cardinality(CoveredCells(brickPositions)) < 4 => ~result.hasEnclosure

\* an enclosure was returned for exactly 4 occupied cells, and the call before,
\* with one brick fewer, returned none
C28_Witness ==
  /\ calls = 2
  /\ result.hasEnclosure
  /\ Cardinality(occupiedCells) = 4
  /\ Cardinality(prevOccupied) = 3
  /\ ~prevResult.hasEnclosure

(***************************************************************************)
(* C21: in the game loop detectEnclosures is called exactly once for each  *)
(* brick placement, with the positions of all the bricks then in the scene *)
(* (the new one included), and no handler calls it when no brick is placed. *)
(***************************************************************************)
C21_OneCallPerPlacement ==
  [][IF Len(bricks') = Len(bricks) + 1
       THEN /\ calls' = calls + 1
            /\ Len(brickPositions') = Len(bricks')
            /\ \A i \in 1..Len(bricks') :
                 /\ brickPositions'[i].x = bricks'[i].x
                 /\ brickPositions'[i].y = bricks'[i].y
            /\ \A i \in 1..Len(bricks) :
                 /\ bricks'[i].x = bricks[i].x
                 /\ bricks'[i].y = bricks[i].y
       ELSE /\ calls' = calls
            /\ Len(bricks') = Len(bricks) \/ bricks' = <<>>]_vars

\* five bricks placed in one game, each followed by its call, then a frame without a call
C21_Witness ==
  /\ Len(bricks) = 5
  /\ calls = 5
  /\ Len(brickPositions) = 5
  /\ sincePlacement > 0

(***************************************************************************)
(* C25: while the game is paused or over, no handler places a brick: the    *)
(* brick list and the brick cooldown keep their values and detectEnclosures *)
(* is not called, whichever input arrives (a frame with the K key down, a   *)
(* right click).  Starting the scene again, which empties the list, is not  *)
(* counted as a change made by the game logic.                              *)
(***************************************************************************)
C25_NoPlacementWhileHalted ==
  [][(isPaused \/ gameState # "playing") =>
       /\ calls' = calls
       /\ brickCooldown' = brickCooldown
       /\ \/ bricks' = bricks
          \/ bricks' = <<>> /\ gameState' = "playing" /\ ~isPaused']_vars

(***************************************************************************)
(* C29: at every point of a session, also after the scene is restarted or   *)
(* entered again from the menu, the stored activeEnclosures is absent or is *)
(* what detectEnclosures returns for the bricks now in the scene; and a     *)
(* frame applies furnace damage only if the bricks now in the scene form an *)
(* enclosure.                                                               *)
(***************************************************************************)
C29_StoredResultCurrent ==
  /\ activeEnclosures.returned =>
       activeEnclosures = DetectEnclosures(PositionsOf(bricks)).result
  /\ damageApplied => DetectEnclosures(PositionsOf(bricks)).result.hasEnclosure

(***************************************************************************)
(* C22: a handler activates furnace mode (the overlay appears) exactly when *)
(* its detection returns hasEnclosure = TRUE while the stored result was    *)
(* absent or had hasEnclosure = FALSE, and deactivates it (the overlay goes) *)
(* exactly when its detection returns FALSE while the stored result had     *)
(* TRUE; a handler applies furnace damage only if the stored result has     *)
(* hasEnclosure = TRUE; both transitions reset the damage timer, so that    *)
(* the handler leaves it at 0, or at the frame's delta if update()'s tick   *)
(* ran after an activation.                                                 *)
(***************************************************************************)
C22_FurnaceFollowsDetection ==
  [][/\ (furnaceOverlay' /\ ~furnaceOverlay) <=>
          (calls' = calls + 1 /\ result'.hasEnclosure /\ ~activeEnclosures.hasEnclosure)
     /\ (~furnaceOverlay' /\ furnaceOverlay) <=>
          (calls' = calls + 1 /\ ~result'.hasEnclosure /\ activeEnclosures.hasEnclosure)
     /\ calls' = calls + 1 => activeEnclosures' = result'
     /\ damageApplied' => activeEnclosures'.hasEnclosure
     /\ (furnaceOverlay' /\ ~furnaceOverlay) => furnaceDamageTimer' \in {0, FrameDelta}
     /\ (~furnaceOverlay' /\ furnaceOverlay) => furnaceDamageTimer' = 0]_vars

\* a fifth brick has just broken the enclosure the fourth had closed, after the
\* furnace had run long enough to apply damage or to have its timer running
C22_Witness ==
  /\ Len(bricks) = 5
  /\ prevResult.hasEnclosure
  /\ ~result.hasEnclosure
  /\ activeEnclosures = result
  /\ ~furnaceOverlay
  /\ furnaceDamageTimer = 0
  /\ placementGap = BrickCooldownTime

(***************************************************************************)
(* C23: once a brick has been placed and the detection made for the bricks  *)
(* of the scene reports an enclosure, a brick is glowing if and only if its *)
(* position is an entry of that detection's enclosureBoundary; this covers  *)
(* the bricks placed after furnace mode was first activated.                *)
(***************************************************************************)
C23_GlowMatchesBoundary ==
  (/\ bricks # <<>>
   /\ brickPositions = PositionsOf(bricks)
   /\ activeEnclosures = result
   /\ activeEnclosures.hasEnclosure) =>
    \A i \in 1..Len(bricks) :
      bricks[i].isGlowing <=>
        \E j \in 1..Len(activeEnclosures.enclosureBoundary) :
          /\ activeEnclosures.enclosureBoundary[j].x = bricks[i].x
          /\ activeEnclosures.enclosureBoundary[j].y = bricks[i].y

(***************************************************************************)
(* C30: under any interleaving of K-key frames, right clicks and plain      *)
(* frames, the scene never holds more than MAX_BRICKS bricks; a brick is    *)
(* placed only when brickCooldown <= 0 at the handler's test (in update(),  *)
(* after the frame's decrement); every placement leaves brickCooldown at    *)
(* BRICK_COOLDOWN_TIME; and between two placements the frames have counted  *)
(* the whole cooldown.                                                      *)
(***************************************************************************)
C30_LimitAndCooldown ==
  /\ [](Len(bricks) <= MaxBricksInScene)
  /\ [][Len(bricks') > Len(bricks) =>
          /\ Len(bricks') = Len(bricks) + 1
          /\ brickCooldown <= 0 \/ (~isPaused /\ brickCooldown - FrameDelta <= 0)
          /\ brickCooldown' = BrickCooldownTime
          /\ placementGap' >= BrickCooldownTime]_vars

\* eight bricks are placed, each the whole cooldown after the one before, and
\* the cooldown has run out again: only the limit holds the ninth back
C30_Witness ==
  /\ Len(bricks) = MaxBricksInScene
  /\ calls = MaxBricksInScene
  /\ brickCooldown <= 0
  /\ sincePlacement = BrickCooldownTime
  /\ placementGap = BrickCooldownTime

(***************************************************************************)
(* C26: under any sequence of takeDamage calls on an Ant, an AntHill or a   *)
(* Player, hp never goes below 0; the entity is dead exactly when its hp is *)
(* 0 and never becomes alive again; a call returns true exactly when it is  *)
(* the one that kills, so at most one call per entity returns true; and a   *)
(* call made after death returns false and leaves hp as it is.              *)
(***************************************************************************)
C26_TakeDamage ==
  /\ [](\A e \in Entities :
          /\ hp[e] >= 0
          /\ isDead[e] <=> hp[e] = 0
          /\ trueReturns[e] = IF isDead[e] THEN 1 ELSE 0)
  /\ [][\A e \in Entities :
          /\ isDead[e] => isDead'[e] /\ hp'[e] = hp[e]
          /\ lastReturn'.entity = e =>
               (lastReturn'.value <=> (~isDead[e] /\ isDead'[e]))]_vars

\* all three have been killed, the player after a hit it survived, and a
\* further call on the dead ant has returned false
C26_Witness ==
  /\ \A e \in Entities : isDead[e] /\ hp[e] = 0 /\ trueReturns[e] = 1
  /\ invulnerableTimer <= 0
  /\ lastReturn = [entity |-> "Ant", value |-> FALSE]

====
